---------------------------- MODULE Spec2Model ----------------------------
(***************************************************************************)
(* mr_transfer: the interactive scan-transfer script, in its two revisions *)
(* src/src/main.py and src/main.py.  Python strings are sequences of       *)
(* one-character strings, so that endswith, lower, split, int and the      *)
(* path arithmetic are computed rather than assumed.                       *)
(***************************************************************************)
EXTENDS Integers, Sequences, FiniteSets, TLC

(***************************************************************************)
(* Python values                                                           *)
(***************************************************************************)
\* Python's None: a one-element sequence no string of characters equals.
None == <<"None">>

Whitespace == {" ", "\t", "\n"}

Digits == <<"0", "1", "2", "3", "4", "5", "6", "7", "8", "9">>

UpperLetters == <<"A", "B", "C", "D", "E", "F", "G", "H", "I", "J", "K", "L", "M",
                  "N", "O", "P", "Q", "R", "S", "T", "U", "V", "W", "X", "Y", "Z">>

LowerLetters == <<"a", "b", "c", "d", "e", "f", "g", "h", "i", "j", "k", "l", "m",
                  "n", "o", "p", "q", "r", "s", "t", "u", "v", "w", "x", "y", "z">>

Range(f) == {f[i] : i \in DOMAIN f}

\* str.lower() on one character.
lower_char(c) ==
    IF \E i \in DOMAIN UpperLetters : UpperLetters[i] = c
    THEN LowerLetters[CHOOSE i \in DOMAIN UpperLetters : UpperLetters[i] = c]
    ELSE c

\* str.lower()
lower(s) == [i \in 1..Len(s) |-> lower_char(s[i])]

\* str.endswith(suffix)
endswith(s, suffix) ==
    /\ Len(s) >= Len(suffix)
    /\ SubSeq(s, Len(s) - Len(suffix) + 1, Len(s)) = suffix

\* s[:-n]
drop_last(s, n) == SubSeq(s, 1, Len(s) - n)

\* str.replace(old, "") for a one-character old.
RECURSIVE remove_char(_, _)
remove_char(s, c) ==
    IF s = <<>> THEN <<>>
    ELSE IF Head(s) = c THEN remove_char(Tail(s), c)
    ELSE <<Head(s)>> \o remove_char(Tail(s), c)

\* str.split(): the maximal runs of non-whitespace characters, in order.
RECURSIVE split_ws_from(_, _, _)
split_ws_from(s, cur, acc) ==
    IF s = <<>> THEN (IF cur = <<>> THEN acc ELSE Append(acc, cur))
    ELSE IF Head(s) \in Whitespace
         THEN split_ws_from(Tail(s), <<>>, IF cur = <<>> THEN acc ELSE Append(acc, cur))
         ELSE split_ws_from(Tail(s), Append(cur, Head(s)), acc)

split_ws(s) == split_ws_from(s, <<>>, <<>>)

\* str.split(sep) for a one-character sep: empty segments are kept.
RECURSIVE split_sep_from(_, _, _, _)
split_sep_from(s, sep, cur, acc) ==
    IF s = <<>> THEN Append(acc, cur)
    ELSE IF Head(s) = sep
         THEN split_sep_from(Tail(s), sep, <<>>, Append(acc, cur))
         ELSE split_sep_from(Tail(s), sep, Append(cur, Head(s)), acc)

split_sep(s, sep) == split_sep_from(s, sep, <<>>, <<>>)

\* str.rstrip()
RECURSIVE rstrip(_)
rstrip(s) ==
    IF s # <<>> /\ s[Len(s)] \in Whitespace THEN rstrip(drop_last(s, 1)) ELSE s

\* str.lstrip()
RECURSIVE lstrip(_)
lstrip(s) ==
    IF s # <<>> /\ Head(s) \in Whitespace THEN lstrip(Tail(s)) ELSE s

\* str.strip()
strip(s) == rstrip(lstrip(s))

(***************************************************************************)
(* The registry                                                            *)
(***************************************************************************)
o_cosgrove == <<"c", "o", "s", "g", "r", "o", "v", "e">>
o_davis == <<"d", "a", "v", "i", "s">>
o_esterlis == <<"e", "s", "t", "e", "r", "l", "i", "s">>
o_zakiniaeiz == <<"z", "a", "k", "i", "n", "i", "a", "e", "i", "z">>
s_bava_ptsd_aud == <<"b", "a", "v", "a", "_", "p", "t", "s", "d", "_", "a", "u", "d">>
s_fmozat_dex == <<"f", "m", "o", "z", "a", "t", "_", "d", "e", "x">>
s_mukappa_aud == <<"m", "u", "k", "a", "p", "p", "a", "_", "a", "u", "d">>
s_pbr_app311_aud == <<"p", "b", "r", "_", "a", "p", "p", "3", "1", "1", "_", "a", "u", "d">>
s_pbr_oud == <<"p", "b", "r", "_", "o", "u", "d">>
s_ekap_ptsd == <<"e", "k", "a", "p", "_", "p", "t", "s", "d">>
s_fpeb_bpd == <<"f", "p", "e", "b", "_", "b", "p", "d">>
s_pbr_ed == <<"p", "b", "r", "_", "e", "d">>
s_app311_fpeb == <<"a", "p", "p", "3", "1", "1", "_", "f", "p", "e", "b">>
s_app311_ket == <<"a", "p", "p", "3", "1", "1", "_", "k", "e", "t">>
s_fpeb_abp_mdd == <<"f", "p", "e", "b", "_", "a", "b", "p", "_", "m", "d", "d">>
s_sdm8_sdc == <<"s", "d", "m", "8", "_", "s", "d", "c">>
s_sv2a_aging_mdd == <<"s", "v", "2", "a", "_", "a", "g", "i", "n", "g", "_", "m", "d", "d">>
s_flb_aud == <<"f", "l", "b", "_", "a", "u", "d">>
s_bypass == <<"b", "y", "p", "a", "s", "s">>
s_mr == <<"_", "m", "r">>

\* pi_dict, in insertion order: <<owner, studies>>.
pi_dict ==
    << <<o_cosgrove, <<s_bava_ptsd_aud, s_fmozat_dex, s_mukappa_aud,
                       s_pbr_app311_aud, s_pbr_oud>> >>,
       <<o_davis, <<s_ekap_ptsd, s_fpeb_bpd, s_pbr_ed>> >>,
       <<o_esterlis, <<s_app311_fpeb, s_app311_ket, s_fpeb_abp_mdd,
                       s_sdm8_sdc, s_sv2a_aging_mdd>> >>,
       <<o_zakiniaeiz, <<s_flb_aud>> >> >>

\* Every study identifier the registry lists.
RegisteredStudies == UNION {Range(pi_dict[i][2]) : i \in DOMAIN pi_dict}

\* The keys of pi_dict whose list holds s.
OwnersOf(s) == {pi_dict[i][1] : i \in {j \in DOMAIN pi_dict : s \in Range(pi_dict[j][2])}}

\* registry_lookup without the sys.exit(1): the caller's defaults come back.
registry_lookup_noexit(study) ==
    LET hits == {i \in DOMAIN pi_dict : study \in Range(pi_dict[i][2])}
    IN  IF hits # {}
        THEN [exited |-> FALSE, bypassed |-> FALSE,
              pi |-> pi_dict[CHOOSE i \in hits : \A j \in hits : i <= j][1],
              study |-> study]
        ELSE [exited |-> FALSE, bypassed |-> FALSE, pi |-> None, study |-> None]

\* The loop of pi_study_match: the first owner, in insertion order, whose list
\* holds the study; exited is the sys.exit(1) after the loop.
registry_lookup(study) ==
    LET hits == {i \in DOMAIN pi_dict : study \in Range(pi_dict[i][2])}
    IN  IF hits # {}
        THEN [exited |-> FALSE, bypassed |-> FALSE,
              pi |-> pi_dict[CHOOSE i \in hits : \A j \in hits : i <= j][1],
              study |-> study]
        ELSE [exited |-> TRUE, bypassed |-> FALSE, pi |-> None, study |-> None]

\* strip_mr without the stripping.
strip_mr_never(study) == study

\* study[:-3] when study.endswith("_mr")
strip_mr(study) == IF endswith(study, s_mr) THEN drop_last(study, 3) ELSE study

\* pi_study_match of src/main.py.
pi_study_match_cfg(study) == registry_lookup(strip_mr(study))

\* pi_study_match comparing the study with "bypass" as typed, not lowercased.
pi_study_match_exact(study, manual_study, manual_pi) ==
    IF study = s_bypass
    THEN [exited |-> FALSE, bypassed |-> TRUE, pi |-> manual_pi, study |-> manual_study]
    ELSE registry_lookup(strip_mr(study))

\* pi_study_match of src/src/main.py; manual_study and manual_pi are what the
\* operator types at the two bypass prompts.
pi_study_match(study, manual_study, manual_pi) ==
    IF lower(study) = s_bypass
    THEN [exited |-> FALSE, bypassed |-> TRUE, pi |-> manual_pi, study |-> manual_study]
    ELSE registry_lookup(strip_mr(study))


(***************************************************************************)
(* int(), list indexing, pathlib                                           *)
(***************************************************************************)
digit_value(c) == (CHOOSE i \in DOMAIN Digits : Digits[i] = c) - 1

\* The value of a digit string in which single underscores may separate digits.
RECURSIVE digits_value(_, _)
digits_value(s, acc) ==
    IF s = <<>> THEN acc
    ELSE IF Head(s) = "_" THEN digits_value(Tail(s), acc)
    ELSE digits_value(Tail(s), 10 * acc + digit_value(Head(s)))

\* int(text): surrounding whitespace is dropped, one sign is allowed, the rest is
\* digits with single underscores between them; anything else is a ValueError.
py_int(text) ==
    LET s == strip(text)
        signed == s # <<>> /\ Head(s) \in {"+", "-"}
        body == IF signed THEN Tail(s) ELSE s
        wellformed ==
            /\ body # <<>>
            /\ \A i \in DOMAIN body : body[i] \in Range(Digits) \cup {"_"}
            /\ body[1] # "_" /\ body[Len(body)] # "_"
            /\ \A i \in 1..(Len(body) - 1) : ~(body[i] = "_" /\ body[i + 1] = "_")
    IN  IF ~wellformed THEN [ok |-> FALSE, value |-> 0]
        ELSE [ok |-> TRUE,
              value |-> IF signed /\ Head(s) = "-"
                        THEN 0 - digits_value(body, 0) ELSE digits_value(body, 0)]

\* list[i] is defined for -len <= i < len; a negative i counts from the end.
py_index_ok(n, i) == (0 - n) <= i /\ i < n

\* The position (from 1) that list[i] reads in a list of n items.
py_index(n, i) == IF i < 0 THEN n + i + 1 ELSE i + 1

\* The components of a path string: empty and "." components vanish (pathlib).
path_parts(s) == SelectSeq(split_sep(s, "/"), LAMBDA c : c # <<>> /\ c # <<".">>)

RECURSIVE join_parts(_)
join_parts(parts) ==
    IF parts = <<>> THEN <<>> ELSE <<"/">> \o Head(parts) \o join_parts(Tail(parts))

\* str(Path(s)) for an absolute s.
Path(s) == IF path_parts(s) = <<>> THEN <<"/">> ELSE join_parts(path_parts(s))

\* The paths of the first k components of parts, nearest the root first.
RECURSIVE prefixes(_, _)
prefixes(parts, k) ==
    IF k = 0 THEN <<>>
    ELSE Append(prefixes(parts, k - 1), join_parts(SubSeq(parts, 1, k)))

\* The path and its ancestors below the root, nearest the root first.
chain(p) == prefixes(path_parts(p), Len(path_parts(p)))

s_data_root == <<"/", "d", "a", "t", "a", "8", "/", "d", "a", "t", "a", "/">>
s_3d_dicom == <<"/", "3", "d", "_", "d", "i", "c", "o", "m">>

\* The suffix appended whatever the study ends in.
normalize_study_always(study) == study \o s_mr

\* study = f"{study}_mr" unless study.endswith("_mr")
normalize_study(study) == IF endswith(study, s_mr) THEN study ELSE study \o s_mr

\* Path(f"/data8/data/{study}/{mr_date}_{subject}/3d_dicom")
pet_dir_of(study, mr_date, subject) ==
    Path(s_data_root \o study \o <<"/">> \o mr_date \o <<"_">> \o subject \o s_3d_dicom)

\* An entry name matches the glob [MS]R*.
glob_MSR(name) == Len(name) >= 2 /\ name[1] \in {"M", "S"} /\ name[2] = "R"

\* A file system: directory path -> the names of its entries.
fs_exists(f, p) == p \in DOMAIN f

\* len(list(pet_dir.glob("[MS]R*")))
file_count_of(f, p) == Cardinality({e \in f[p] : glob_MSR(e)})

\* The parent of ch[k] in the chain ch, and the name of ch[k] in it.
chain_parent(ch, k) == IF k = 1 THEN <<"/">> ELSE ch[k - 1]

chain_name(ch, k) == SubSeq(ch[k], (IF k = 1 THEN 0 ELSE Len(ch[k - 1])) + 2, Len(ch[k]))

\* The file system after the first k directories of the chain ch exist: each
\* missing one is created empty and entered in its parent; an existing one is
\* left as it is (exist_ok).
fs_mkdirs(f, ch, k) ==
    [q \in DOMAIN f \cup {ch[i] : i \in 1..k} |->
        (IF q \in DOMAIN f THEN f[q] ELSE {})
        \cup {chain_name(ch, i) :
                i \in {j \in 1..k : ch[j] \notin DOMAIN f /\ chain_parent(ch, j) = q}}]

\* pet_dir.mkdir(parents=True, exist_ok=True), when it succeeds.
mkdir_parents(f, p) == fs_mkdirs(f, chain(p), Len(chain(p)))

(***************************************************************************)
(* What the operator types, what the remote host answers, what is on disk  *)
(***************************************************************************)
\* The longest discovery output.
MaxLines == 2

\* The most entries the destination directory holds before the run.
MaxEntries == 4

\* The longest run of authentication failures that is counted.
MaxAuthFailures == 2

RECURSIVE SeqsUpTo(_, _)
SeqsUpTo(S, n) ==
    IF n = 0 THEN {<<>>}
    ELSE SeqsUpTo(S, n - 1) \cup
         {Append(q, x) : q \in {r \in SeqsUpTo(S, n - 1) : Len(r) = n - 1}, x \in S}

subj_S1 == <<"S", "1">>
subj_S2 == <<"S", "2">>
date_0115 == <<"0", "1", "1", "5">>
date_0116 == <<"0", "1", "1", "6">>
s_pilot == <<"p", "i", "l", "o", "t">>
s_smith == <<"s", "m", "i", "t", "h">>
s_y == <<"y">>
s_n == <<"n">>

SubjectInputs == {subj_S1, subj_S2}

\* Answers to "Please enter study name": registered, suffixed, and neither.
StudyInputs ==
    {s_pbr_oud, s_pbr_oud \o s_mr, s_pbr_oud \o s_mr \o s_mr,
     <<"P", "B", "R", "_", "o", "u", "d">>, <<"p", "b", "r">>, <<>>, s_mr,
     s_bypass \o s_mr, <<"B", "y", "P", "a", "s", "s">>}

\* The registry's identifiers, bare and suffixed, with the other answers.
AllStudyInputs ==
    StudyInputs \cup RegisteredStudies \cup {s \o s_mr : s \in RegisteredStudies}
    \cup {s_bypass, <<"B", "Y", "P", "A", "S", "S">>, <<"b", "y", "p", "a", "s", "s", " ">>}

ManualStudyInputs == {s_pilot, s_pbr_oud \o s_mr}

ManualPiInputs == {s_smith}

ScannerInputs == {<<"T", "r", " ", "i", "o">>, <<"t", "r", "i", "o">>}

PasswordInputs == {"right", "wrong"}

RetryInputs == {<<"y">>, <<" ", "Y", " ">>, <<"n">>, <<"N">>, <<"x">>, <<>>}

line_a == <<"t", "r", "i", "o", "_", "0", "1", "1", "5", "_", "a", " ", "1", " ", "2", " ", "3", " ", "L", "\n">>
line_b == <<"t", "r", "i", "o", "_", "0", "1", "1", "6", "_", "b", " ", "1", " ", "2", " ", "3", " ", "L", " ", "x", "\n">>
line_short == <<"t", "r", "i", "o", "_", "0", "1", "1", "5", "_", "c", " ", "1", " ", "2", "\n">>
line_nodate == <<"s", "c", "a", "n", " ", "1", " ", "2", " ", "3", " ", "t", "r", "i", "o", "_", "1", "_", "2", "\n">>

\* Lines the discovery command can print: each holds trio_<alnum>_<alnum>, which
\* is all the grep of the command asks of a line.
LineVals == {line_a, line_b, line_short, line_nodate}

\* What exec_command does with the discovery command: it raises, or gives the
\* lines of standard output, with or without text on standard error.
DiscoveryResults ==
    {[raised |-> TRUE, stdout |-> <<>>, stderr |-> FALSE]}
    \cup {[raised |-> FALSE, stdout |-> l, stderr |-> FALSE] : l \in SeqsUpTo(LineVals, MaxLines)}
    \cup {[raised |-> FALSE, stdout |-> l, stderr |-> TRUE] : l \in SeqsUpTo({line_a}, 1)}

\* What exec_command does with the readlink command.
ReadlinkResults ==
    {[raised |-> TRUE, stdout |-> <<>>, stderr |-> FALSE],
     [raised |-> FALSE, stdout |-> <<>>, stderr |-> TRUE],
     [raised |-> FALSE, stdout |-> << <<"/", "d", "/", "a", " ", "\n">> >>, stderr |-> FALSE]}

\* Answers to "Enter the number of the scan".
SelectionInputs ==
    {<<"0">>, <<"1">>, <<" ", "1">>, <<"2">>, <<"3">>, <<"-", "1">>, <<"-", "4">>,
     <<"x">>, <<>>}

AnswerInputs == {<<"y">>, <<"n">>, <<"Y">>, <<"N">>, <<"x">>}

StudyEdits == {<<>>, s_pilot}

DateEdits == {<<>>, date_0116}

SubjectEdits == {<<>>, subj_S1}

e_MR1 == <<"M", "R", "1">>
e_notes == <<"n", "o", "t", "e", "s">>
e_SR1 == <<"S", "R", "1">>
e_MR2 == <<"M", "R", "2">>
e_SR2 == <<"S", "R", "2">>

\* The entries an earlier run may have left, in the order they came.
EntryOrder == <<e_MR1, e_notes, e_SR1, e_MR2, e_SR2>>

\* The tree every run starts from: the data root.
BaseFs == mkdir_parents([p \in {<<"/">>} |-> {}], s_data_root)

\* The destination an earlier run may have left behind.
SeedDir == pet_dir_of(s_pbr_oud \o s_mr, date_0115, subj_S1)

FsConfigs ==
    {BaseFs} \cup
    {[mkdir_parents(BaseFs, SeedDir) EXCEPT ![SeedDir] = {EntryOrder[i] : i \in 1..n}] :
        n \in 0..MaxEntries}

Revisions == {"src/src/main.py", "src/main.py"}

ConfigFiles == {"absent", "with_password", "without_password"}

(***************************************************************************)
(* The state of one run of main()                                          *)
(***************************************************************************)
VARIABLES
    rev,              \* which revision of the script runs
    config_file,      \* /home1/rtc29/.petlab.json, as src/main.py finds it
    fs,               \* the local file system: directory -> entry names
    pc,               \* where main() stands
    exit_status,      \* the process's exit status, -1 while it runs
    typed,            \* the prompt answered last and the text typed at it
    subject, study, pi, scanner,
    m_pswd,           \* the credential handed to client.connect
    client,           \* the SSHClient: "none", "open", "closed"
    attempt,          \* the last client.connect: its outcome, and how many
                      \* authentication failures in a row led to it
    remote_cmds,      \* the exec_command calls made, in order
    scans_list, offered, scan_to_transfer, mr_date, mr_file_path,
    pet_dir,
    prompt,           \* the confirmation asked last
    choice,           \* ask_confirmation's choice
    accepted_by,      \* the confirmation that left the loop, or "none"
    mkdir_calls,      \* the pet_dir.mkdir calls made, in order
    transfer          \* the subprocess.run call

vars == <<rev, config_file, fs, pc, exit_status, typed, subject, study, pi, scanner,
          m_pswd, client, attempt, remote_cmds, scans_list, offered, scan_to_transfer,
          mr_date, mr_file_path, pet_dir, prompt, choice, accepted_by, mkdir_calls,
          transfer>>

NoPassword == [from |-> "none", secret |-> "None"]

NoAttempt == [outcome |-> "none", auth_failures |-> 0]

NoPrompt == [kind |-> "none", dir |-> None, count |-> 0]

NoTransfer == [source |-> None, destination |-> None, ssh_option |-> FALSE,
               outcome |-> "none", reported |-> FALSE]

Init ==
    /\ rev \in Revisions
    /\ config_file \in IF rev = "src/main.py" THEN ConfigFiles ELSE {"absent"}
    /\ fs \in FsConfigs
    /\ pc = "start"
    /\ exit_status = -1
    /\ typed = [at |-> "none", text |-> <<>>]
    /\ subject = None /\ study = None /\ pi = None /\ scanner = None
    /\ m_pswd = NoPassword
    /\ client = "none"
    /\ attempt = NoAttempt
    /\ remote_cmds = <<>>
    /\ scans_list = <<>> /\ offered = <<>>
    /\ scan_to_transfer = None /\ mr_date = None /\ mr_file_path = None
    /\ pet_dir = None /\ prompt = NoPrompt /\ choice = None
    /\ accepted_by = "none"
    /\ mkdir_calls = <<>>
    /\ transfer = NoTransfer

\* sys.exit(code), or an exception nothing catches (code 1).
Exit(code) == pc' = "exited" /\ exit_status' = code

(***************************************************************************)
(* main(): the study, the scanner, the session                             *)
(***************************************************************************)
\* The subject and study prompts and pi_study_match (with its two bypass prompts).
ResolveStudyFrom(inputs) ==
    /\ pc = "start"
    /\ \E subj \in SubjectInputs, si \in inputs,
          ms \in ManualStudyInputs, mp \in ManualPiInputs :
          \E r \in {IF rev = "src/src/main.py"
                    THEN pi_study_match(si, ms, mp) ELSE pi_study_match_cfg(si)} :
              /\ typed' = [at |-> "study",
                           text |-> IF r.bypassed THEN <<subj, si, ms, mp>> ELSE <<subj, si>>]
              /\ subject' = subj
              /\ pi' = r.pi
              /\ study' = r.study
              /\ pc' = IF r.exited THEN "exited" ELSE "scanner_input"
              /\ exit_status' = IF r.exited THEN 1 ELSE exit_status
    /\ UNCHANGED <<rev, config_file, attempt, fs, scanner, m_pswd, client, remote_cmds,
                   scans_list, offered, scan_to_transfer, mr_date, mr_file_path,
                   pet_dir, prompt, choice, accepted_by, mkdir_calls, transfer>>

ResolveStudy == ResolveStudyFrom(StudyInputs)

ResolveAnyStudy == ResolveStudyFrom(AllStudyInputs)

\* load_config() and the branch of main() on it (src/main.py).
load_password(cfg) ==
    IF cfg = "absent" THEN [prompted |-> TRUE, pswd |-> NoPassword]
    ELSE IF cfg = "with_password"
         THEN [prompted |-> FALSE, pswd |-> [from |-> "config", secret |-> "right"]]
         ELSE [prompted |-> FALSE, pswd |-> [from |-> "config", secret |-> "None"]]

\* input(...).lower().replace(" ", "")
normalize_scanner(raw) == remove_char(lower(raw), " ")

\* The scanner prompt; src/main.py then reads its configuration.
EnterScanner ==
    /\ pc = "scanner_input"
    /\ \E raw \in ScannerInputs :
          /\ typed' = [at |-> "scanner", text |-> <<raw>>]
          /\ scanner' = normalize_scanner(raw)
    /\ IF rev = "src/src/main.py" \/ load_password(config_file).prompted
       THEN pc' = "getpass" /\ UNCHANGED m_pswd
       ELSE pc' = "connect" /\ m_pswd' = load_password(config_file).pswd
    /\ UNCHANGED <<rev, config_file, attempt, fs, exit_status, subject, study, pi, client,
                   remote_cmds, scans_list, offered, scan_to_transfer, mr_date,
                   mr_file_path, pet_dir, prompt, choice, accepted_by, mkdir_calls,
                   transfer>>

\* getpass(): in main() of src/main.py, in the loop of ssh_connect of
\* src/src/main.py.  What is typed is not echoed: it is kept in m_pswd alone.
GetPass ==
    /\ pc = "getpass"
    /\ \E pw \in PasswordInputs : m_pswd' = [from |-> "prompt", secret |-> pw]
    /\ typed' = [at |-> "password", text |-> <<>>]
    /\ pc' = "connect"
    /\ UNCHANGED <<rev, config_file, attempt, fs, exit_status, subject, study, pi, scanner,
                   client, remote_cmds, scans_list, offered, scan_to_transfer,
                   mr_date, mr_file_path, pet_dir, prompt, choice, accepted_by,
                   mkdir_calls, transfer>>

\* What client.connect (and, in src/main.py, load_host_keys before it) can do.
ConnectOutcomes(r, pswd) ==
    {"timeout", "error"}
    \cup (IF pswd.secret = "right" THEN {"ok"} ELSE {"auth"})
    \cup (IF r = "src/main.py" THEN {"hostkeys"} ELSE {})

\* An authentication failure taken as fatal in both revisions.
ssh_connect_auth_fatal(r, outcome) ==
    IF outcome = "ok" THEN "discover"
    ELSE IF r = "src/main.py" \/ outcome = "auth" THEN "exited"
    ELSE IF outcome = "timeout" THEN "getpass"
    ELSE "retry_prompt"

\* Where ssh_connect goes on an outcome of the attempt.
ssh_connect(r, outcome) ==
    IF outcome = "ok" THEN "discover"
    ELSE IF r = "src/main.py" THEN "exited"
    ELSE IF outcome \in {"auth", "timeout"} THEN "getpass"
    ELSE "retry_prompt"

\* The attempt as the run remembers it: authentication failures are counted while
\* they follow one another, up to MaxAuthFailures.
attempted(last, outcome) ==
    [outcome |-> outcome,
     auth_failures |-> IF outcome # "auth" THEN 0
                       ELSE IF last.auth_failures < MaxAuthFailures
                            THEN last.auth_failures + 1 ELSE MaxAuthFailures]

Connect ==
    /\ pc = "connect"
    /\ \E outcome \in ConnectOutcomes(rev, m_pswd) :
          /\ pc' = ssh_connect(rev, outcome)
          /\ client' = IF outcome = "ok" THEN "open" ELSE client
          /\ attempt' = attempted(attempt, outcome)
          /\ exit_status' = IF ssh_connect(rev, outcome) = "exited" THEN 1 ELSE exit_status
    /\ UNCHANGED <<rev, config_file, fs, typed, subject, study, pi, scanner, m_pswd,
                   remote_cmds, scans_list, offered, scan_to_transfer, mr_date,
                   mr_file_path, pet_dir, prompt, choice, accepted_by, mkdir_calls,
                   transfer>>

\* Every answer but "n" taken as a yes.
retry_again_unless_n(answer) == lower(strip(answer)) # s_n

\* "Would you care to try again? (y/n)" of src/src/main.py.
retry_again(answer) == lower(strip(answer)) = s_y

RetryAnswer ==
    /\ pc = "retry_prompt"
    /\ \E answer \in RetryInputs :
          /\ typed' = [at |-> "retry", text |-> <<answer>>]
          /\ pc' = IF retry_again(answer) THEN "getpass" ELSE "exited"
          /\ exit_status' = IF retry_again(answer) THEN exit_status ELSE 1
    /\ UNCHANGED <<rev, config_file, attempt, fs, subject, study, pi, scanner, m_pswd, client,
                   remote_cmds, scans_list, offered, scan_to_transfer, mr_date,
                   mr_file_path, pet_dir, prompt, choice, accepted_by, mkdir_calls,
                   transfer>>

(***************************************************************************)
(* main(): discovery, selection, the source path                           *)
(***************************************************************************)
\* Text on standard error emptying the result.
ssh_command_stderr_empties(result) ==
    IF result.raised \/ result.stderr THEN <<>> ELSE result.stdout

\* ssh_command: the lines of standard output; an exception gives [].
ssh_command(result) == IF result.raised THEN <<>> ELSE result.stdout

\* The empty check left out.
no_scans_ignored(lines) == FALSE

\* `if not scans_list`
no_scans(lines) == lines = <<>>

\* scan.split()[0] and scan.split()[4] both exist.
displayable(line) == Len(split_ws(line)) >= 5

\* How many lines the listing loop prints before one raises IndexError.
shown(lines) ==
    IF \A i \in DOMAIN lines : displayable(lines[i]) THEN Len(lines)
    ELSE (CHOOSE i \in DOMAIN lines :
            /\ ~displayable(lines[i])
            /\ \A j \in 1..(i - 1) : displayable(lines[j])) - 1

\* The listing: enumerate(scans_list, start=0) with each line's two fields.
listing(lines) ==
    [i \in 1..shown(lines) |->
        [index |-> i - 1, token |-> split_ws(lines[i])[1], label |-> split_ws(lines[i])[5]]]

\* The command strings, by their parts.
discovery_cmd(r, scn, owner) ==
    [kind |-> "discovery",
     tool |-> IF r = "src/src/main.py" THEN "FindMyStudy.sh" ELSE "FindMyStudy",
     scanner |-> scn, arg |-> owner]

readlink_cmd(scn, token) ==
    [kind |-> "readlink", tool |-> "readlink", scanner |-> scn, arg |-> token]

\* One ssh_command call as the log keeps it: the command, what exec_command did
\* (it raised, it wrote to standard error, how many lines it printed), how many
\* lines ssh_command returned, and the state of the handle it ran on.
issued(cmd, result, handle) ==
    [cmd |-> cmd, raised |-> result.raised, stderr |-> result.stderr,
     printed |-> Len(result.stdout),
     returned |-> Len(ssh_command(result)), handle |-> handle]

\* The discovery command, the empty check, the listing.
Discover ==
    /\ pc = "discover"
    /\ \E result \in DiscoveryResults :
          \E lines \in {ssh_command(result)} :
              /\ remote_cmds' =
                    Append(remote_cmds, issued(discovery_cmd(rev, scanner, pi), result, client))
              /\ scans_list' = lines
              /\ offered' = IF no_scans(lines) THEN <<>> ELSE listing(lines)
              /\ IF no_scans(lines) \/ shown(lines) < Len(lines)
                 THEN Exit(1)
                 ELSE pc' = "select" /\ UNCHANGED exit_status
    /\ UNCHANGED <<rev, config_file, attempt, fs, typed, subject, study, pi, scanner, m_pswd,
                   client, scan_to_transfer, mr_date, mr_file_path, pet_dir, prompt,
                   choice, accepted_by, mkdir_calls, transfer>>

\* select_scan taking the date from split("_")[0].
select_scan_first_segment(lines, text) ==
    LET n == py_int(text)
    IN  IF ~n.ok \/ ~py_index_ok(Len(lines), n.value)
        THEN [raised |-> TRUE, token |-> None, date |-> None]
        ELSE LET fields == split_ws(lines[py_index(Len(lines), n.value)])
             IN  IF fields = <<>>
                 THEN [raised |-> TRUE, token |-> None, date |-> None]
                 ELSE IF Len(split_sep(fields[1], "_")) < 2
                      THEN [raised |-> TRUE, token |-> fields[1], date |-> None]
                      ELSE [raised |-> FALSE, token |-> fields[1],
                            date |-> split_sep(fields[1], "_")[1]]

\* int(input()), scans_list[scan_index].split()[0], scan_to_transfer.split("_")[1];
\* raised is the exception the except clause turns into sys.exit(1).
select_scan(lines, text) ==
    LET n == py_int(text)
    IN  IF ~n.ok \/ ~py_index_ok(Len(lines), n.value)
        THEN [raised |-> TRUE, token |-> None, date |-> None]
        ELSE LET fields == split_ws(lines[py_index(Len(lines), n.value)])
             IN  IF fields = <<>>
                 THEN [raised |-> TRUE, token |-> None, date |-> None]
                 ELSE IF Len(split_sep(fields[1], "_")) < 2
                      THEN [raised |-> TRUE, token |-> fields[1], date |-> None]
                      ELSE [raised |-> FALSE, token |-> fields[1],
                            date |-> split_sep(fields[1], "_")[2]]

Select ==
    /\ pc = "select"
    /\ \E text \in SelectionInputs :
          \E s \in {select_scan(scans_list, text)} :
              /\ typed' = [at |-> "select", text |-> <<text>>]
              /\ scan_to_transfer' = s.token
              /\ mr_date' = s.date
              /\ pc' = IF s.raised THEN "exited" ELSE "resolve_path"
              /\ exit_status' = IF s.raised THEN 1 ELSE exit_status
    /\ UNCHANGED <<rev, config_file, attempt, fs, subject, study, pi, scanner, m_pswd, client,
                   remote_cmds, scans_list, offered, mr_file_path, pet_dir, prompt,
                   choice, accepted_by, mkdir_calls, transfer>>

\* The close left out.
close_forgotten(handle) == handle

\* client.close()
close(handle) == "closed"

\* readlink, [0].rstrip(), client.close().  main() reads scans_list for the last
\* time at the selection: from here on the model no longer carries the discovery
\* output and its listing.
ResolvePath ==
    /\ pc = "resolve_path"
    /\ \E result \in ReadlinkResults :
          \E lines \in {ssh_command(result)} :
              /\ remote_cmds' =
                    Append(remote_cmds,
                           issued(readlink_cmd(scanner, scan_to_transfer), result, client))
              /\ IF lines = <<>>
                 THEN Exit(1) /\ UNCHANGED <<mr_file_path, client>>
                 ELSE /\ mr_file_path' = rstrip(lines[1])
                      /\ client' = close(client)
                      /\ pc' = "loop"
                      /\ UNCHANGED exit_status
    /\ scans_list' = <<>>
    /\ offered' = <<>>
    /\ UNCHANGED <<rev, config_file, attempt, fs, typed, subject, study, pi, scanner, m_pswd,
                   scan_to_transfer, mr_date, pet_dir, prompt, choice, accepted_by,
                   mkdir_calls, transfer>>

(***************************************************************************)
(* main(): the destination loop, ask_confirmation, the transfer            *)
(***************************************************************************)
\* `if file_count > 1`
populated(file_count) == file_count > 1

\* One pass of `while True` up to the prompt it blocks on; an existing directory
\* with at most one match falls through to the next pass.
LoopIter ==
    /\ pc = "loop"
    /\ \E st \in {normalize_study(study)} : \E dir \in {pet_dir_of(st, mr_date, subject)} :
           /\ study' = st
           /\ pet_dir' = dir
           /\ IF fs_exists(fs, dir)
              THEN IF populated(file_count_of(fs, dir))
                   THEN /\ pc' = "ask_first"
                        /\ prompt' = [kind |-> "continue_anyway", dir |-> dir,
                                      count |-> file_count_of(fs, dir)]
                        /\ choice' = None
                   ELSE UNCHANGED <<pc, prompt, choice>>
              ELSE /\ pc' = "ask_first"
                   /\ prompt' = [kind |-> "is_correct", dir |-> dir, count |-> 0]
                   /\ choice' = None
    /\ UNCHANGED <<rev, config_file, attempt, fs, exit_status, typed, subject, pi, scanner,
                   m_pswd, client, remote_cmds, scans_list, offered, scan_to_transfer,
                   mr_date, mr_file_path, accepted_by, mkdir_calls, transfer>>

\* ask_confirmation's choice: only the first answer is lowercased.
ask_choice(first, raw) == IF first THEN lower(raw) ELSE raw

\* `while choice not in ("y", "n")`: the prompt is repeated.
Reprompt ==
    /\ pc \in {"ask_first", "ask_again"}
    /\ \E raw \in AnswerInputs :
          /\ ask_choice(pc = "ask_first", raw) \notin {s_y, s_n}
          /\ typed' = [at |-> "confirm", text |-> <<raw>>]
          /\ choice' = ask_choice(pc = "ask_first", raw)
    /\ pc' = "ask_again"
    /\ UNCHANGED <<rev, config_file, attempt, fs, exit_status, subject, study, pi, scanner,
                   m_pswd, client, remote_cmds, scans_list, offered, scan_to_transfer,
                   mr_date, mr_file_path, pet_dir, prompt, accepted_by, mkdir_calls,
                   transfer>>

\* The answer ignored: the loop is left either way.
continue_anyway_always(confirmed) == [pc |-> "transfer", status |-> -1]

\* `if ask_confirmation(...): break` and its `else: sys.exit(0)`.
continue_anyway(confirmed) ==
    IF confirmed THEN [pc |-> "transfer", status |-> -1] ELSE [pc |-> "exited", status |-> 0]

\* The answer to "... would you like to continue anyways?".
AnswerContinue ==
    /\ pc \in {"ask_first", "ask_again"}
    /\ prompt.kind = "continue_anyway"
    /\ \E raw \in AnswerInputs :
          /\ ask_choice(pc = "ask_first", raw) \in {s_y, s_n}
          /\ typed' = [at |-> "confirm", text |-> <<raw>>]
          /\ choice' = ask_choice(pc = "ask_first", raw)
    /\ pc' = continue_anyway(choice' = s_y).pc
    /\ exit_status' = IF pc' = "exited" THEN continue_anyway(choice' = s_y).status
                                        ELSE exit_status
    /\ accepted_by' = IF pc' = "transfer" THEN "continue_anyway" ELSE accepted_by
    /\ UNCHANGED <<rev, config_file, attempt, fs, subject, study, pi, scanner, m_pswd, client,
                   remote_cmds, scans_list, offered, scan_to_transfer, mr_date,
                   mr_file_path, pet_dir, prompt, mkdir_calls, transfer>>

\* One pet_dir.mkdir call as the log keeps it.
mkdir_call(dir, ok, handle) == [path |-> dir, ok |-> ok, handle |-> handle]

\* The exception of mkdir swallowed: the loop is left either way.
after_mkdir_ignored(ok) == [pc |-> "transfer", status |-> -1]

\* `break` after pet_dir.mkdir, or `except Exception: sys.exit(1)`.
after_mkdir(ok) ==
    IF ok THEN [pc |-> "transfer", status |-> -1] ELSE [pc |-> "exited", status |-> 1]

\* The answer to "... is this correct?": mkdir and break (or sys.exit(1) when mkdir
\* raises, having made any part of the chain), or the correction prompts.
AnswerCorrect ==
    /\ pc \in {"ask_first", "ask_again"}
    /\ prompt.kind = "is_correct"
    /\ \E raw \in AnswerInputs :
          /\ ask_choice(pc = "ask_first", raw) \in {s_y, s_n}
          /\ typed' = [at |-> "confirm", text |-> <<raw>>]
          /\ choice' = ask_choice(pc = "ask_first", raw)
    /\ IF choice' = s_n
       THEN pc' = "edit" /\ UNCHANGED <<fs, exit_status, accepted_by, mkdir_calls>>
       ELSE \E ch \in {chain(pet_dir)} : \E made \in 0..Len(ch) :
               /\ fs' = fs_mkdirs(fs, ch, made)
               /\ mkdir_calls' =
                     Append(mkdir_calls, mkdir_call(pet_dir, made = Len(ch), client))
               /\ pc' = after_mkdir(made = Len(ch)).pc
               /\ exit_status' = IF pc' = "exited" THEN after_mkdir(made = Len(ch)).status
                                                   ELSE exit_status
               /\ accepted_by' = IF pc' = "transfer" THEN "is_correct" ELSE accepted_by
    /\ UNCHANGED <<rev, config_file, attempt, subject, study, pi, scanner, m_pswd, client,
                   remote_cmds, scans_list, offered, scan_to_transfer, mr_date,
                   mr_file_path, pet_dir, prompt, transfer>>

\* The answer taken as it is, blank or not.
edit_field_overwrite(answer, current) == answer

\* `input(...) or current`
edit_field(answer, current) == IF answer = <<>> THEN current ELSE answer

\* The three correction prompts.
Edit ==
    /\ pc = "edit"
    /\ \E a \in StudyEdits, b \in DateEdits, c \in SubjectEdits :
          /\ typed' = [at |-> "edit", text |-> <<a, b, c>>]
          /\ study' = edit_field(a, study)
          /\ mr_date' = edit_field(b, mr_date)
          /\ subject' = edit_field(c, subject)
    /\ pc' = "loop"
    /\ UNCHANGED <<rev, config_file, attempt, fs, exit_status, pi, scanner, m_pswd, client,
                   remote_cmds, scans_list, offered, scan_to_transfer, mr_file_path,
                   pet_dir, prompt, choice, accepted_by, mkdir_calls, transfer>>

\* What subprocess.run(["rsync", ...]) can do: rsync exits 0, exits non-zero, or
\* cannot be started (OSError); only the last raises.
RsyncOutcomes == {"ok", "nonzero", "oserror"}

\* The copy sent to the directory above 3d_dicom.
rsync_call_to_parent(r, path, dir, outcome) ==
    [source |-> path \o <<"/", "*">>,
     destination |-> SubSeq(dir, 1, Len(dir) - Len(s_3d_dicom)),
     ssh_option |-> (r = "src/src/main.py"),
     outcome |-> outcome, reported |-> (outcome = "oserror")]

\* The rsync call: its source and destination arguments, and whether main()
\* prints an error for the outcome.
rsync_call(r, path, dir, outcome) ==
    [source |-> path \o <<"/", "*">>, destination |-> dir,
     ssh_option |-> (r = "src/src/main.py"),
     outcome |-> outcome, reported |-> (outcome = "oserror")]

\* subprocess.run and the end of main().
Transfer ==
    /\ pc = "transfer"
    /\ \E outcome \in RsyncOutcomes :
          transfer' = rsync_call(rev, mr_file_path, pet_dir, outcome)
    /\ pc' = "done"
    /\ exit_status' = 0
    /\ UNCHANGED <<rev, config_file, attempt, fs, typed, subject, study, pi, scanner, m_pswd,
                   client, remote_cmds, scans_list, offered, scan_to_transfer,
                   mr_date, mr_file_path, pet_dir, prompt, choice, accepted_by,
                   mkdir_calls>>

Next ==
    \/ ResolveStudy
    \/ EnterScanner
    \/ GetPass
    \/ Connect
    \/ RetryAnswer
    \/ Discover
    \/ Select
    \/ ResolvePath
    \/ LoopIter
    \/ Reprompt
    \/ AnswerContinue
    \/ AnswerCorrect
    \/ Edit
    \/ Transfer

Spec == Init /\ [][Next]_vars

\* pi_study_match alone, on every identifier of the registry.
NextRegistry == ResolveAnyStudy

SpecRegistry == Init /\ [][NextRegistry]_vars

(***************************************************************************)
(* The registry (C1 - C3)                                                  *)
(***************************************************************************)
\* The study name typed at the prompt answered last.
TypedStudy == typed.text[2]

\* s without one trailing "_mr".
WithoutSuffix(s) ==
    IF Len(s) >= 3 /\ s[Len(s) - 2] = "_" /\ s[Len(s) - 1] = "m" /\ s[Len(s)] = "r"
    THEN SubSeq(s, 1, Len(s) - 3) ELSE s

\* s is "bypass" in some letter case.
IsBypassKeyword(s) ==
    /\ Len(s) = Len(s_bypass)
    /\ \A i \in DOMAIN s_bypass :
          \E j \in DOMAIN LowerLetters :
             LowerLetters[j] = s_bypass[i] /\ s[i] \in {LowerLetters[j], UpperLetters[j]}

\* The run has done nothing beyond the prompts: no connection, no remote command,
\* no directory, no transfer.
NothingDone ==
    /\ client = "none"
    /\ m_pswd = NoPassword
    /\ remote_cmds = <<>>
    /\ mkdir_calls = <<>>
    /\ transfer = NoTransfer

\* C1: for every study identifier s of pi_dict, the inputs s and s + "_mr" both
\* return (owner, s), owner being the one key of pi_dict whose list holds s; the
\* study returned never ends in "_mr".  Both revisions.
C1_RegisteredStudyResolves ==
    typed.at = "study" =>
        \A s \in RegisteredStudies :
            TypedStudy \in {s, s \o s_mr} =>
                /\ pc = "scanner_input"
                /\ Cardinality(OwnersOf(s)) = 1
                /\ pi \in OwnersOf(s)
                /\ study = s
                /\ ~endswith(study, s_mr)

C1_Witness ==
    /\ typed.at = "study"
    /\ TypedStudy = s_flb_aud \o s_mr
    /\ pc = "scanner_input"
    /\ pi = o_zakiniaeiz
    /\ study = s_flb_aud

\* C2: a study input that, without one trailing "_mr", is not in pi_dict, and is
\* not the bypass keyword, ends the workflow with status 1 inside the resolution:
\* nothing was connected, run, created or transferred, and nothing follows.
C2_UnknownStudyIsFatal ==
    (/\ typed.at = "study"
     /\ WithoutSuffix(TypedStudy) \notin RegisteredStudies
     /\ ~IsBypassKeyword(TypedStudy))
    => (/\ pc = "exited"
        /\ exit_status = 1
        /\ NothingDone
        /\ ~ENABLED Next)

C2_Witness ==
    /\ typed.at = "study"
    /\ TypedStudy = s_pbr_oud \o s_mr \o s_mr
    /\ pc = "exited"
    /\ exit_status = 1

\* C3: in src/src/main.py a study input equal to "bypass" in any letter case
\* returns exactly the (owner, study) pair typed at the two manual prompts, not
\* looked up, not stripped, not validated, and the workflow goes on.
C3_BypassReturnsTypedPair ==
    (/\ rev = "src/src/main.py"
     /\ typed.at = "study"
     /\ IsBypassKeyword(TypedStudy))
    => (/\ Len(typed.text) = 4
        /\ study = typed.text[3]
        /\ pi = typed.text[4]
        /\ pc = "scanner_input"
        /\ exit_status = -1)

C3_Witness ==
    /\ rev = "src/src/main.py"
    /\ typed.at = "study"
    /\ TypedStudy = <<"B", "Y", "P", "A", "S", "S">>
    /\ study = s_pbr_oud \o s_mr
    /\ pi = s_smith
    /\ pi \notin OwnersOf(s_pbr_oud)
    /\ pc = "scanner_input"

(***************************************************************************)
(* Discovery and selection (C4 - C6)                                       *)
(***************************************************************************)
\* The whitespace-delimited fields of a line start where a character that is not
\* whitespace follows the start of the line or whitespace.
FieldStarts(line) ==
    {i \in DOMAIN line :
        line[i] \notin Whitespace /\ (i = 1 \/ line[i - 1] \in Whitespace)}

\* The first whitespace-delimited field of a line that has one.
FirstField(line) ==
    LET from == CHOOSE i \in FieldStarts(line) : \A j \in FieldStarts(line) : i <= j
        upto == CHOOSE i \in from..Len(line) :
                    /\ \A j \in from..i : line[j] \notin Whitespace
                    /\ (i = Len(line) \/ line[i + 1] \in Whitespace)
    IN  SubSeq(line, from, upto)

\* Where the underscores of a token are.
Underscores(token) == {i \in DOMAIN token : token[i] = "_"}

\* The second underscore-delimited segment of a token that holds an underscore.
SecondSegment(token) ==
    LET u == Underscores(token)
        a == CHOOSE i \in u : \A j \in u : i <= j
        b == IF u \ {a} = {} THEN Len(token) + 1
             ELSE CHOOSE i \in u \ {a} : \A j \in u \ {a} : i <= j
    IN  SubSeq(token, a + 1, b - 1)

\* The discovery command has returned and nothing has been run after it.
JustDiscovered == Len(remote_cmds) = 1 /\ pc \in {"select", "exited", "resolve_path"}

\* The candidates are offered: one per line, numbered from 0, in the order returned.
AllOffered ==
    /\ Len(offered) = Len(scans_list)
    /\ \A i \in DOMAIN offered :
          offered[i].index = i - 1 /\ offered[i].token = FirstField(scans_list[i])

\* The index k was typed as its decimal numeral at the selection prompt.
Chose(k) == typed.at = "select" /\ typed.text = << <<Digits[k + 1]>> >>

\* The k-th line's first field is the transfer token, its second segment the date.
Selected(k) ==
    /\ pc = "resolve_path"
    /\ scan_to_transfer = FirstField(scans_list[k + 1])
    /\ mr_date = SecondSegment(scan_to_transfer)

\* C4 as stated: every non-empty discovery output of N lines has its N candidates
\* offered, and choosing k in 0..N-1 selects the k-th line's token and date.
C4_EveryOutputIsOffered ==
    (JustDiscovered /\ scans_list # <<>>) =>
        /\ AllOffered
        /\ \A k \in 0..(Len(scans_list) - 1) : Chose(k) => Selected(k)

\* C4, amended: when every line has at least five whitespace-delimited fields the
\* N candidates are offered (else the run ends with status 1 in the listing), and
\* choosing k in 0..N-1 selects the k-th line's token and date when that token
\* holds an underscore (else the run ends with status 1 with nothing resolved).
C4_WellFormedOutputIsOffered ==
    (JustDiscovered /\ scans_list # <<>>) =>
        IF \A i \in DOMAIN scans_list : Cardinality(FieldStarts(scans_list[i])) >= 5
        THEN /\ AllOffered
             /\ pc # "exited" \/ typed.at = "select"
             /\ \A k \in 0..(Len(scans_list) - 1) :
                   Chose(k) =>
                      IF Underscores(FirstField(scans_list[k + 1])) # {}
                      THEN Selected(k)
                      ELSE pc = "exited" /\ exit_status = 1 /\ mr_date = None
        ELSE pc = "exited" /\ exit_status = 1 /\ Len(offered) < Len(scans_list)

C4_Witness ==
    /\ Len(scans_list) = 2
    /\ AllOffered
    /\ Chose(1)
    /\ Selected(1)
    /\ scan_to_transfer = FirstField(line_b)
    /\ mr_date = date_0116

\* C5: when the discovery command returns no lines, an exception swallowed by
\* ssh_command included, the workflow has exited with status 1 and no path
\* resolution, directory creation or transfer was or will be issued.
C5_EmptyDiscoveryIsFatal ==
    (remote_cmds # <<>> /\ remote_cmds[1].returned = 0) =>
        /\ pc = "exited"
        /\ exit_status = 1
        /\ Len(remote_cmds) = 1
        /\ remote_cmds[1].cmd.kind = "discovery"
        /\ mkdir_calls = <<>>
        /\ transfer = NoTransfer
        /\ ~ENABLED Next

C5_Witness ==
    /\ Len(remote_cmds) = 1
    /\ remote_cmds[1].cmd.kind = "discovery"
    /\ remote_cmds[1].raised
    /\ remote_cmds[1].returned = 0
    /\ pc = "exited"
    /\ exit_status = 1

\* C6 as stated: with N candidates offered, a selection that is not an integer
\* in 0..N-1 ends the workflow with status 1: no candidate goes on to the path
\* resolution.
C6_OnlyListedIndexesSelect ==
    (/\ typed.at = "select"
     /\ Len(remote_cmds) = 1
     /\ ~(/\ py_int(typed.text[1]).ok
          /\ py_int(typed.text[1]).value \in 0..(Len(scans_list) - 1)))
    => (/\ pc = "exited"
        /\ exit_status = 1)

(***************************************************************************)
(* The session and the destination loop (C7 - C10)                         *)
(***************************************************************************)
\* The run has reached the destination loop.
ReachedResolver == pc = "loop" \/ pet_dir # None

\* C7: on every run that reaches the destination loop the handle ran exactly two
\* remote commands, the discovery and then the path resolution, and was closed
\* before any directory was created; no command ever ran on a closed handle.
C7_TwoCommandsThenClosed ==
    /\ ReachedResolver =>
          /\ Len(remote_cmds) = 2
          /\ remote_cmds[1].cmd.kind = "discovery"
          /\ remote_cmds[2].cmd.kind = "readlink"
          /\ client = "closed"
    /\ \A i \in DOMAIN remote_cmds : remote_cmds[i].handle = "open"
    /\ \A i \in DOMAIN mkdir_calls : mkdir_calls[i].handle = "closed"

C7_Witness ==
    /\ pc = "done"
    /\ Len(remote_cmds) = 2
    /\ Len(mkdir_calls) = 1
    /\ mkdir_calls[1].ok
    /\ client = "closed"

\* An entry name matches [MS]R*.
MatchesMSR(name) ==
    Len(name) >= 2 /\ (name[1] = "M" \/ name[1] = "S") /\ name[2] = "R"

\* How many entries of directory d match [MS]R*.
Matching(d) == Cardinality({e \in fs[d] : MatchesMSR(e)})

\* The confirmation the operator is at.
Asking(kind) == pc \in {"ask_first", "ask_again"} /\ prompt.kind = kind

\* C8: a destination that exists with more than one entry matching [MS]R* goes to
\* the transfer only after an affirmative answer to "continue anyways"; a
\* negative answer exits with status 0 with no directory created and no transfer.
C8_PopulatedNeedsContinue ==
    /\ (pc \in {"transfer", "done"} /\ pet_dir \in DOMAIN fs /\ Matching(pet_dir) > 1) =>
          /\ accepted_by = "continue_anyway"
          /\ prompt = [kind |-> "continue_anyway", dir |-> pet_dir, count |-> Matching(pet_dir)]
          /\ choice = s_y
          /\ mkdir_calls = <<>>
    /\ (prompt.kind = "continue_anyway" /\ choice = s_n) =>
          /\ pc = "exited"
          /\ exit_status = 0
          /\ mkdir_calls = <<>>
          /\ transfer = NoTransfer
          /\ ~ENABLED Next

C8_Witness ==
    /\ pc = "done"
    /\ pet_dir = SeedDir
    /\ Matching(pet_dir) = 3
    /\ accepted_by = "continue_anyway"
    /\ transfer.destination = SeedDir

\* The destination d is missing, or exists with at most one entry matching [MS]R*.
MissingOrSparse(d) == d \notin DOMAIN fs \/ Matching(d) <= 1

\* C9 as stated: whenever the destination is missing or exists with at most one
\* matching entry the pass of the loop asks "is this correct"; yes leads to the
\* directory creation, no to the correction prompts.
C9_MissingOrSparseAsks ==
    [][/\ (pc = "loop" /\ MissingOrSparse(pet_dir')) =>
             /\ pc' = "ask_first"
             /\ prompt' = [kind |-> "is_correct", dir |-> pet_dir', count |-> 0]
       /\ (Asking("is_correct") /\ pc' \notin {"ask_first", "ask_again"}) =>
             IF choice' = s_y
             THEN Len(mkdir_calls') = Len(mkdir_calls) + 1 /\ pc' \in {"transfer", "exited"}
             ELSE pc' = "edit" /\ mkdir_calls' = mkdir_calls]_vars

\* The three correction prompts were all left blank.
AllBlank == typed.at = "edit" /\ typed.text = << <<>>, <<>>, <<>> >>

\* C10: at the correction prompts a blank answer keeps the field and any other
\* answer replaces it; so after declining a missing destination and leaving the
\* three prompts blank, the next pass computes the same path and asks the same
\* confirmation of the same missing directory.
C10_BlankKeepsField ==
    [][/\ pc = "edit" =>
             /\ study' = IF typed'.text[1] = <<>> THEN study ELSE typed'.text[1]
             /\ mr_date' = IF typed'.text[2] = <<>> THEN mr_date ELSE typed'.text[2]
             /\ subject' = IF typed'.text[3] = <<>> THEN subject ELSE typed'.text[3]
             /\ pc' = "loop"
       /\ (pc = "loop" /\ AllBlank) =>
             /\ pet_dir' = pet_dir
             /\ pet_dir' \notin DOMAIN fs'
             /\ pc' = "ask_first"
             /\ prompt' = prompt
             /\ prompt'.kind = "is_correct"]_vars

C10_Witness ==
    /\ AllBlank
    /\ pc = "ask_first"
    /\ prompt = [kind |-> "is_correct", dir |-> pet_dir, count |-> 0]
    /\ pet_dir \notin DOMAIN fs

(***************************************************************************)
(* The destination path and the transfer (C11, C12)                        *)
(***************************************************************************)
\* s with "_mr" appended iff it does not already end in "_mr".
Suffixed(s) ==
    IF Len(s) >= 3 /\ SubSeq(s, Len(s) - 2, Len(s)) = <<"_", "m", "r">>
    THEN s ELSE s \o <<"_", "m", "r">>

\* /data8/data/<study'>/<date>_<subject>/3d_dicom, written out.
DestinationOf(st, date, subj) ==
    <<"/", "d", "a", "t", "a", "8", "/", "d", "a", "t", "a", "/">> \o Suffixed(st)
    \o <<"/">> \o date \o <<"_">> \o subj \o <<"/", "3", "d", "_", "d", "i", "c", "o", "m">>

\* C11: every pass of the destination loop, the first and those after edits, sets
\* the path to /data8/data/<study'>/<date>_<subject>/3d_dicom of the three fields
\* it starts with, study' being the study with "_mr" appended iff it lacks it; the
\* fields the pass leaves give the same path again, and the study it leaves is
\* unchanged by a second normalization.
C11_PathIsFunctionOfFields ==
    [][pc = "loop" =>
          /\ pet_dir' = DestinationOf(study, mr_date, subject)
          /\ study' = Suffixed(study)
          /\ Suffixed(study') = study'
          /\ mr_date' = mr_date /\ subject' = subject
          /\ DestinationOf(study', mr_date', subject') = pet_dir']_vars

C11_Witness ==
    /\ typed.at = "edit"
    /\ typed.text = <<s_pilot, <<>>, <<>> >>
    /\ pc = "ask_first"
    /\ study = s_pilot \o s_mr
    /\ pet_dir = DestinationOf(s_pilot, mr_date, subject)

\* C12 as stated: whenever the copy process fails, by a non-zero exit or by not
\* starting, the workflow reports the failure, still ends with status 0, makes no
\* second attempt and leaves the destination directory in place.
C12_CopyFailureIsReported ==
    (transfer.outcome \in {"nonzero", "oserror"}) =>
        /\ transfer.reported
        /\ pc = "done"
        /\ exit_status = 0
        /\ pet_dir \in DOMAIN fs
        /\ ~ENABLED Next

(***************************************************************************)
(* ssh_connect of src/src/main.py (C13, C14)                               *)
(***************************************************************************)
\* The run is at the password prompt of ssh_connect, nothing lost.
AtFreshPrompt == pc = "getpass" /\ client = "none" /\ exit_status = -1

Negative(answer) == answer \in {<<"n">>, <<"N">>}

\* The answer is one "y" or "Y" with nothing but blanks around it.
Affirmative(answer) ==
    \E k \in DOMAIN answer :
        /\ answer[k] \in {"y", "Y"}
        /\ \A j \in DOMAIN answer \ {k} : answer[j] \in Whitespace

Ancestors(p) ==
    {SubSeq(p, 1, k) : k \in {j \in 2..Len(p) : j = Len(p) \/ p[j + 1] = "/"}}

\* C15: a directory creation that fails after the path was confirmed ends the run
\* with status 1 and no transfer is made, whatever part of the chain was made; one
\* that succeeds leaves the directory and every directory above it in place and
\* the loop left through the "is this correct" confirmation.
C15_MkdirFailureIsFatal ==
    \A i \in DOMAIN mkdir_calls :
        /\ i = 1 /\ Len(mkdir_calls) = 1
        /\ prompt = [kind |-> "is_correct", dir |-> mkdir_calls[i].path, count |-> 0]
        /\ choice = s_y
        /\ IF mkdir_calls[i].ok
           THEN /\ pc \in {"transfer", "done"}
                /\ accepted_by = "is_correct"
                /\ Ancestors(mkdir_calls[i].path) \subseteq DOMAIN fs
                /\ pet_dir = mkdir_calls[i].path
           ELSE /\ pc = "exited"
                /\ exit_status = 1
                /\ transfer = NoTransfer
                /\ accepted_by = "none"
                /\ ~ENABLED Next

C15_Witness ==
    /\ Len(mkdir_calls) = 1
    /\ ~mkdir_calls[1].ok
    /\ pc = "exited"
    /\ exit_status = 1
    /\ Ancestors(pet_dir) \cap DOMAIN fs # {}
    /\ pet_dir \notin DOMAIN fs

C17_CredentialFromConfigOrPrompt ==
    (rev = "src/main.py" /\ attempt.outcome # "none") =>
        IF config_file = "with_password"
        THEN m_pswd.from = "config" /\ m_pswd.secret # "None"
        ELSE m_pswd.from = "prompt"

(***************************************************************************)
(* Progress, the confirmation, the session's end (C18 - C20)               *)
(***************************************************************************)
\* C18 as stated: whatever the computed path holds (nothing, a directory with at
\* most one entry matching [MS]R*, one with more), a pass of the destination loop
\* ends at an operator prompt, at the transfer, or at an exit.
C18_EveryPassMakesProgress ==
    [][pc = "loop" =>
          \/ pc' \in {"ask_first", "ask_again"} /\ prompt'.dir = pet_dir'
          \/ pc' = "edit"
          \/ pc' = "transfer"
          \/ pc' = "exited"]_vars

\* The run stands at a confirmation, its first prompt or a repeated one.
Confirming == pc \in {"ask_first", "ask_again"}

\* C19 as stated: at the first prompt of a confirmation and at every repeated one,
\* "y" or "Y" ends it with yes, "n" or "N" ends it with no, and any other answer
\* repeats the prompt.
C19_AnswerCaseIsIgnored ==
    [][Confirming =>
          IF typed'.text[1] \in {<<"y">>, <<"Y">>}
          THEN ~Confirming' /\ choice' = <<"y">>
          ELSE IF Negative(typed'.text[1])
               THEN ~Confirming' /\ choice' = <<"n">>
               ELSE pc' = "ask_again"]_vars

\* C20 as stated: a run that obtained a session never ends, by any exit or by
\* completing, with the session still open.
C20_SessionClosedOnEveryExit ==
    pc \in {"exited", "done"} => client # "open"

(***************************************************************************)
(* What the correction prompts leave alone (C21)                           *)
(***************************************************************************)
\* C21: the correction prompts change nothing but the study, the date and the
\* subject; once the source path is resolved, the token, the source path and the
\* owner stay as they are to the end of the run; and the copy is invoked with the
\* source path that the readlink of the selected token gave and with the
\* destination the operator accepted last.
C21_EditLeavesSourceAlone ==
    [][/\ pc = "edit" =>
             /\ pc' = "loop"
             /\ typed'.at = "edit"
             /\ <<rev, config_file, fs, exit_status, pi, scanner, m_pswd, client, attempt,
                  remote_cmds, scan_to_transfer, mr_file_path, pet_dir, prompt, choice,
                  accepted_by, mkdir_calls, transfer>>' =
                <<rev, config_file, fs, exit_status, pi, scanner, m_pswd, client, attempt,
                  remote_cmds, scan_to_transfer, mr_file_path, pet_dir, prompt, choice,
                  accepted_by, mkdir_calls, transfer>>
       /\ mr_file_path # None =>
             /\ scan_to_transfer' = scan_to_transfer
             /\ mr_file_path' = mr_file_path
             /\ pi' = pi
             /\ remote_cmds' = remote_cmds
       /\ transfer' # transfer =>
             /\ pc = "transfer" /\ transfer = NoTransfer
             /\ remote_cmds[2].cmd.kind = "readlink"
             /\ remote_cmds[2].cmd.arg = scan_to_transfer
             /\ transfer'.source = mr_file_path \o <<"/", "*">>
             /\ transfer'.destination = prompt.dir
             /\ choice = <<"y">>
             /\ prompt.dir = DestinationOf(study, mr_date, subject)]_vars

C21_Witness ==
    /\ pc = "done"
    /\ scan_to_transfer = FirstField(line_a)
    /\ mr_date = date_0116
    /\ study = s_pilot \o s_mr
    /\ transfer.source = mr_file_path \o <<"/", "*">>
    /\ transfer.destination = DestinationOf(s_pilot, date_0116, subject)

=============================================================================
